---- MODULE Spec2Model ----
(***************************************************************************)
(* Friend-link checker (check-links script): one run of main() reads and   *)
(* parses data/friends.ts, checks every entry with checkLink (URL retry    *)
(* loop, then avatar retry loop), reconciles the results into the          *)
(* disconnected flags, writes disconnected.json / friends.ts and exits.    *)
(* Every await of the script is one step of the model.                     *)
(***************************************************************************)
EXTENDS Integers, Sequences, FiniteSets, TLC

(* ------------------------------ constants ------------------------------ *)

CHECK_TIMEOUT == 15000
MAX_RETRIES == 3
RETRY_DELAY == 1000

\* Bounds of the model.
MaxEntries == 2        \* entry objects in the entry source
MaxRuns == 3           \* runs of the script, one after another
MaxResults == 2        \* check results handed to the reconciliation alone

\* Values a JS field takes when it is undefined / not yet assigned.
NoString == ""
NoNumber == -1

(* ------------------------------ data model ----------------------------- *)

\* interface FriendLink; recommended/disconnected are `true` or undefined,
\* FALSE stands for undefined (the parser never produces `false`).
FriendLink(n, d, u, a, date, rec, disc) ==
    [name |-> n, description |-> d, url |-> u, avatar |-> a,
     addDate |-> date, recommended |-> rec, disconnected |-> disc]

\* One `{ ... }` object of the FRIEND_LINKS array as text: the optional
\* boolean fields are the literal written ("true", "false") or "" when the
\* field is not written; trailingComma is a comma after the last field.
\* optional is the order in which the optional fields are written.
TextObject(n, d, u, a, date, rec, disc, comma) ==
    [name |-> n, description |-> d, url |-> u, avatar |-> a,
     addDate |-> date, recommended |-> rec, disconnected |-> disc,
     optional |-> (IF date # "" THEN << "addDate" >> ELSE << >>)
                  \o (IF rec # "" THEN << "recommended" >> ELSE << >>)
                  \o (IF disc # "" THEN << "disconnected" >> ELSE << >>),
     trailingComma |-> comma]

\* Texts with a double quote, and texts with the two characters `];`.
WithQuote == {"2026 \"spring\""}
WithArrayEnd == {"links [a];"}
ContainsQuote(str) == str \in WithQuote
ContainsArrayEnd(str) == str \in WithArrayEnd

StringFields(o) == {o.name, o.description, o.url, o.avatar, o.addDate}

\* Entry objects the entry source is drawn from (after data/friends.ts).
TextPool ==
    { TextObject("ATao-Blog", "desc-A", "https://blog.atao.cyou/",
                 "https://cdn.atao.cyou/Web/Avatar.png", "2026-02-21", "", disc, FALSE)
        : disc \in {"", "true"} }
    \cup
    { TextObject("Luxynth", "desc-L", "https://www.luxynth.cn",
                 "https://www.luxynth.cn/assets/images/avatar.jpg", "", "true", disc, FALSE)
        : disc \in {"", "true"} }
    \cup
    { TextObject("Test", "desc-T", "https://cs.050815.xyz",
                 "https://cn.cravatar.com/avatar/eb72", "2026-02-21", "", "", TRUE) }

SeqsUpTo(S, n) == UNION { [1..m -> S] : m \in 0..n }

\* The file data/friends.ts: wellFormed is whether the text has the
\* `export const FRIEND_LINKS: FriendLink[] = [ ... ];` array at all.
SourceFiles ==
    { [wellFormed |-> TRUE, objects |-> os] : os \in SeqsUpTo(TextPool, MaxEntries) }
    \cup { [wellFormed |-> FALSE, objects |-> << >>] }

\* objectRegex: required fields are non-empty ([^"]+), the object closes
\* right after the last optional field (no trailing comma).
OptionalRank(field) ==
    IF field = "addDate" THEN 1 ELSE IF field = "recommended" THEN 2 ELSE 3

\* (?:, addDate ...)?(?:, recommended ...)?(?:, disconnected ...)? in this order
InRegexOrder(fields) ==
    \A a, b \in 1..Len(fields) : a < b => OptionalRank(fields[a]) < OptionalRank(fields[b])

ObjectMatchesLenient(o) ==
    /\ o.name # "" /\ o.description # "" /\ o.url # "" /\ o.avatar # ""
    /\ \A str \in StringFields(o) : ~ContainsQuote(str)
    /\ InRegexOrder(o.optional)

ObjectMatches(o) ==
    /\ o.name # "" /\ o.description # "" /\ o.url # "" /\ o.avatar # ""
    /\ \A str \in StringFields(o) : ~ContainsQuote(str)   \* "([^"]+)" ends at the first quote
    /\ InRegexOrder(o.optional)
    /\ ~o.trailingComma

ParseObject(o) ==
    FriendLink(o.name, o.description, o.url, o.avatar,
               o.addDate,                    \* objMatch[5] || undefined
               o.recommended = "true",        \* objMatch[6] === 'true' ? true : undefined
               o.disconnected = "true")

RECURSIVE MapParse(_)
MapParse(os) ==
    IF os = << >> THEN << >>
    ELSE (IF ObjectMatches(Head(os)) THEN << ParseObject(Head(os)) >> ELSE << >>)
         \o MapParse(Tail(os))

\* match[1] of /= \[([\s\S]*?)\];/ : the array text up to the first `];`, which
\* leaves out the object that holds it and every object after.
RECURSIVE ArrayContent(_)
ArrayContent(os) ==
    IF os = << >> THEN << >>
    ELSE IF \E str \in StringFields(Head(os)) : ContainsArrayEnd(str) THEN << >>
    ELSE << Head(os) >> \o ArrayContent(Tail(os))

parseFriendsTs(content) == MapParse(ArrayContent(content.objects))

GenerateObjectFlagFirst(f) ==
    [name |-> f.name, description |-> f.description, url |-> f.url,
     avatar |-> f.avatar,
     addDate |-> f.addDate,
     recommended |-> IF f.recommended THEN "true" ELSE "",
     disconnected |-> IF f.disconnected THEN "true" ELSE "",
     optional |-> (IF f.addDate # "" THEN << "addDate" >> ELSE << >>)
                  \o (IF f.disconnected THEN << "disconnected" >> ELSE << >>)
                  \o (IF f.recommended THEN << "recommended" >> ELSE << >>),
     trailingComma |-> FALSE]

GenerateObject(f) ==
    [name |-> f.name, description |-> f.description, url |-> f.url,
     avatar |-> f.avatar,
     addDate |-> f.addDate,
     recommended |-> IF f.recommended THEN "true" ELSE "",
     disconnected |-> IF f.disconnected THEN "true" ELSE "",
     optional |-> (IF f.addDate # "" THEN << "addDate" >> ELSE << >>)        \* if (f.addDate)
                  \o (IF f.recommended THEN << "recommended" >> ELSE << >>)  \* if (f.recommended)
                  \o (IF f.disconnected THEN << "disconnected" >> ELSE << >>), \* if (f.disconnected)
     trailingComma |-> FALSE]

generateFriendsTs(fs) ==
    [wellFormed |-> TRUE, objects |-> [j \in 1..Len(fs) |-> GenerateObject(fs[j])]]

(* ------------------------------ probing -------------------------------- *)

HttpStatuses == {200, 404}
ResponseTimes == {120}

\* What one fetchUrl call can end with: a response (any status), the abort
\* of its own timeout, or a transport failure thrown by fetch.
ProbeOutcomes ==
    { [kind |-> "response", status |-> s, time |-> t] : s \in HttpStatuses, t \in ResponseTimes }
    \cup { [kind |-> "abort", status |-> 0, time |-> 0],
           [kind |-> "network", status |-> 0, time |-> 0] }

\* res.ok of the fetch API
ResOk(status) == status >= 200 /\ status <= 299

NullError == [name |-> "null", message |-> NoString]

HttpMessage(status) == IF status = 404 THEN "HTTP 404" ELSE "HTTP other"

\* The error caught after a probe that did not give res.ok.
ErrorOf(o) ==
    CASE o.kind = "response" -> [name |-> "Error", message |-> HttpMessage(o.status)]
      [] o.kind = "abort"    -> [name |-> "AbortError", message |-> "This operation was aborted"]
      [] OTHER               -> [name |-> "TypeError", message |-> "fetch failed"]

Reachable(o) == o.kind = "response" /\ ResOk(o.status)

\* How a probe ended, as the attempt log records it.
OutcomeClass(o) ==
    IF Reachable(o) THEN "ok"
    ELSE IF o.kind = "response" THEN "http"
    ELSE o.kind

TerminalStatusByKind(err) == IF err.name # "Error" THEN "timeout" ELSE "error"
\* lastError?.name === 'AbortError' ? 'timeout' : 'error'
TerminalStatus(err) == IF err.name = "AbortError" THEN "timeout" ELSE "error"

RetryAfterEvery(idx) == idx < MAX_RETRIES
\* if (i < MAX_RETRIES - 1)
RetryAfter(idx) == idx < MAX_RETRIES - 1

\* the loop condition i < MAX_RETRIES
LoopInclusive(idx) == idx <= MAX_RETRIES
LoopTest(idx) == idx < MAX_RETRIES

\* Math.floor(Math.random() * 100), sampled
Jitters == {0, 99}

Pow2(n) == IF n = 0 THEN 1 ELSE IF n = 1 THEN 2 ELSE 4

BackoffDelay(idx, jitter) == RETRY_DELAY * Pow2(idx) + jitter

NewResult(f) ==
    [name |-> f.name, url |-> f.url, avatar |-> f.avatar,
     status |-> NoString, httpStatus |-> NoNumber, responseTime |-> NoNumber,
     reason |-> NoString,
     avatarStatus |-> NoString, avatarHttpStatus |-> NoNumber,
     avatarResponseTime |-> NoNumber]

NoResult == NewResult(FriendLink("", "", "", "", "", FALSE, FALSE))

SkipNever(f) == FALSE
\* if (friend.disconnected)
SkipCheck(f) == f.disconnected

SkippedResult(f) ==
    [NewResult(f) EXCEPT !.status = "ok", !.responseTime = 0,
                         !.avatarStatus = "ok", !.avatarResponseTime = 0]

(* ---------------------------- reconciliation --------------------------- *)

\* r.reason?.includes('已标记为失联'): the texts that carry the skip marker.
MarkedReasons == {"marked as disconnected"}
IncludesMarked(reason) == reason \in MarkedReasons

IsFailedUrlOnly(r) == r.status # "ok" /\ ~IncludesMarked(r.reason)

\* results.filter(r => (r.status !== 'ok' && !marked) || r.avatarStatus !== 'ok')
IsFailed(r) ==
    \/ (r.status # "ok" /\ ~IncludesMarked(r.reason))
    \/ r.avatarStatus # "ok"

Failed(rs) == SelectSeq(rs, IsFailed)

IssuesBothSides(r) ==
    << [side |-> "URL", status |-> r.status, detail |-> r.reason],
       [side |-> "Avatar", status |-> r.avatarStatus, detail |-> NoString] >>

\* issues: one part per side that is not ok; reason is issues.join(', '),
\* kept as the sequence of its parts.
Issues(r) ==
    (IF r.status # "ok"
        THEN << [side |-> "URL", status |-> r.status, detail |-> r.reason] >>
        ELSE << >>)
    \o
    (IF r.avatarStatus # "ok"
        THEN << [side |-> "Avatar", status |-> r.avatarStatus, detail |-> NoString] >>
        ELSE << >>)

DisconnectedInfo(r) == [name |-> r.name, url |-> r.url, reason |-> Issues(r)]

DisconnectedList(failed) == [j \in 1..Len(failed) |-> DisconnectedInfo(failed[j])]

\* results.find(r => r.name === f.name): index of the first match, 0 if none
FindResult(rs, n) ==
    IF \E j \in 1..Len(rs) : rs[j].name = n
       THEN CHOOSE j \in 1..Len(rs) :
                /\ rs[j].name = n
                /\ \A h \in 1..(j - 1) : rs[h].name # n
       ELSE 0

SetFlagOnly(f) == [f EXCEPT !.disconnected = TRUE, !.recommended = FALSE, !.addDate = NoString]

\* { ...f, disconnected: true }
SetFlag(f) == [f EXCEPT !.disconnected = TRUE]

ClearFlagKeeps(f) == f

\* const { disconnected, ...rest } = f; return rest
ClearFlag(f) == [f EXCEPT !.disconnected = FALSE]

\* the callback of friends.map in the failure branch
UpdateFriend(f, rs) ==
    LET j == FindResult(rs, f.name) IN
    IF j # 0 /\ (rs[j].status # "ok" \/ rs[j].avatarStatus # "ok") THEN SetFlag(f)
    ELSE IF j # 0 /\ rs[j].status = "ok" /\ rs[j].avatarStatus = "ok" /\ f.disconnected
         THEN ClearFlag(f)
    ELSE f

UpdatedFriends(fs, rs) == [j \in 1..Len(fs) |-> UpdateFriend(fs[j], rs)]

HasChangesAnyFlag(updated, fs) ==
    \E j \in 1..Len(updated) : updated[j].disconnected

HasChangesSelf(updated, fs) ==
    \E j \in 1..Len(updated) : updated[j].disconnected # updated[j].disconnected

\* updatedFriends.some((f, i) => f.disconnected !== friends[i].disconnected)
HasChanges(updated, fs) ==
    \E j \in 1..Len(updated) : updated[j].disconnected # fs[j].disconnected

\* friends.filter(f => f.disconnected)
RecoveredFriends(fs) == SelectSeq(fs, LAMBDA f : f.disconnected)

RecoverFriendKeeps(f) == f

\* the callback of friends.map in the recovery branch
RecoverFriend(f) == IF f.disconnected THEN ClearFlag(f) ELSE f

RecoveredList(fs) == [j \in 1..Len(fs) |-> RecoverFriend(fs[j])]

\* What main decides from the entries and their results (lines 281-346):
\* the failure report, the updated entries and whether they changed.
Reconcile(fs, rs) ==
    IF Len(Failed(rs)) > 0
    THEN [newlyFailing |-> DisconnectedList(Failed(rs)),
          updated |-> UpdatedFriends(fs, rs),
          changed |-> HasChanges(UpdatedFriends(fs, rs), fs)]
    ELSE IF Len(RecoveredFriends(fs)) > 0
    THEN [newlyFailing |-> << >>, updated |-> RecoveredList(fs), changed |-> TRUE]
    ELSE [newlyFailing |-> << >>, updated |-> fs, changed |-> FALSE]

NoReport == [newlyFailing |-> << >>, updated |-> << >>, changed |-> FALSE]

\* process.exit(1)
FailureExitCode == 1
\* main() returns normally
NormalExitCode == 0
\* main().catch(console.error): the rejection is logged and the process
\* ends on its own.
CaughtExitCode == 0

\* main: content before readFile has returned
NoContent == [wellFormed |-> FALSE, objects |-> << >>]

(* -------------------------------- state -------------------------------- *)

VARIABLES
    dataFile,        \* content of data/friends.ts
    reportFile,      \* content written to disconnected.json (<< >>: none)
    issued,          \* files main has called fs.writeFile on
    written,         \* files a writeFile call has completed on
    pc,              \* the await main / checkLink is suspended at
    friends,         \* main: friends
    results,         \* main: results
    result,          \* checkLink: result
    i,               \* checkLink: loop index
    lastError,       \* checkLink: lastError
    delay,           \* checkLink: delay of the pending backoff timer
    attempts,        \* outcomes of the probes of the current retry loop
    nProbes,         \* fetchUrl calls of the current checkLink call
    nWaits,          \* backoff waits of the current checkLink call
    disconnectedList,\* main: disconnectedList
    updatedFriends,  \* main: updatedFriends (<< >> until computed)
    changed,         \* main: hasChanges / recoveredFriends.length > 0
    exitCode,        \* exit code of the process (NoNumber while running)
    thrown,          \* the step whose exception reached main().catch
    again,           \* outcome of a repeated reconciliation
    content,         \* main: content, the text readFile returned
    parsed,          \* entries parsed back from a generated text
    run,             \* number of the run of the script in progress
    history,         \* exit code and first-entry flags of the finished runs
    pending,         \* operations awaited: fetches in flight, backoff timers
    timers,          \* fetchUrl: timeout timers set and not yet cleared or fired
    aborted          \* fetchUrl: controllers whose abort() was called

files == << dataFile, reportFile, issued, written >>
locals == << result, i, lastError, delay, attempts, nProbes, nWaits >>
report == << disconnectedList, updatedFriends, changed >>
ending == << exitCode, thrown >>
extra == << content, parsed, run, history >>
net == << pending, timers, aborted >>
vars == << dataFile, reportFile, issued, written, pc, friends, results, result, i,
           lastError, delay, attempts, nProbes, nWaits, disconnectedList,
           updatedFriends, changed, exitCode, thrown, again,
           content, parsed, run, history, pending, timers, aborted >>

Init ==
    /\ dataFile \in SourceFiles
    /\ reportFile = << >>
    /\ issued = {}
    /\ written = {}
    /\ pc = "read"
    /\ friends = << >>
    /\ results = << >>
    /\ result = NoResult
    /\ i = 0
    /\ lastError = NullError
    /\ delay = 0
    /\ attempts = << >>
    /\ nProbes = 0
    /\ nWaits = 0
    /\ disconnectedList = << >>
    /\ updatedFriends = << >>
    /\ changed = FALSE
    /\ exitCode = NoNumber
    /\ thrown = NoString
    /\ again = NoReport
    /\ content = NoContent
    /\ parsed = << >>
    /\ run = 1
    /\ history = << >>
    /\ pending = {}
    /\ timers = {}
    /\ aborted = {}

(* ------------------------------- main: load ---------------------------- *)

\* An exception that reaches main().catch(console.error).
Caught(step) ==
    /\ pc' = "exited"
    /\ thrown' = step
    /\ exitCode' = CaughtExitCode

\* fs.readFile succeeds and parseFriendsTs finds the array.
ReadFile ==
    /\ pc = "read"
    /\ dataFile.wellFormed
    /\ content' = dataFile
    /\ friends' = parseFriendsTs(content')
    /\ pc' = "loop"
    /\ UNCHANGED << files, results, locals, report, ending, again, parsed, run,
                    history, net >>

\* fs.readFile rejects.
ReadFileFails ==
    /\ pc = "read"
    /\ Caught("read")
    /\ UNCHANGED << files, friends, results, locals, report, again, extra, net >>

\* parseFriendsTs throws: the text has no FRIEND_LINKS array.
ParseFails ==
    /\ pc = "read"
    /\ ~dataFile.wellFormed
    /\ content' = dataFile
    /\ Caught("parse")
    /\ UNCHANGED << files, friends, results, locals, report, again, parsed, run,
                    history, net >>

(* ------------------------------- checkLink ----------------------------- *)

\* for (const friend of friends): the entry of the running checkLink call
CurFriend == friends[Len(results) + 1]

InCheck == pc \in {"url_probe", "url_wait", "url_retry", "url_done",
                   "avatar_probe", "avatar_wait", "avatar_retry", "return"}

\* if (!result.status) { ... }  after the URL loop
ClassifyUrl(r, err) ==
    IF r.status = NoString
    THEN [r EXCEPT !.status = TerminalStatus(err), !.reason = err.message,
                   !.responseTime = 0]
    ELSE r

\* if (!result.avatarStatus) { ... }  after the avatar loop
ClassifyAvatar(r, err) ==
    IF r.avatarStatus = NoString
    THEN [r EXCEPT !.avatarStatus = TerminalStatus(err), !.avatarResponseTime = 0]
    ELSE r

\* One fetchUrl call: the entry, the resource and the attempt it serves.
ProbeId(res, idx) == [entry |-> Len(results) + 1, resource |-> res, attempt |-> idx]

FetchOp(id) == [op |-> "fetch", id |-> id]
BackoffOp(id) == [op |-> "backoff", id |-> id]

\* setTimeout(() => controller.abort(), CHECK_TIMEOUT)
SetTimer(ts, id) == ts \cup {id}

ClearTimerNever(ts, id) == ts
\* finally { clearTimeout(timer) }
ClearTimer(ts, id) == ts \ {id}

\* What the fetch of probe id can settle with: the AbortError once its
\* controller was aborted, a response or a transport failure before.
Settles(id) ==
    IF id \in aborted
    THEN { o \in ProbeOutcomes : o.kind = "abort" }
    ELSE { o \in ProbeOutcomes : o.kind # "abort" }

CatchesResponsesOnly(o) == o.kind = "response"
\* catch (e: unknown): every failure of the attempt is caught in the loop
Catches(o) == TRUE

PushFront(rs, r) == << r >> \o rs
\* results.push(result)
PushResult(rs, r) == Append(rs, r)

\* checkLink is called for an entry that is flagged: synthetic result.
CheckLinkSkip ==
    /\ pc = "loop"
    /\ Len(results) < Len(friends)
    /\ SkipCheck(CurFriend)
    /\ result' = SkippedResult(CurFriend)
    /\ pc' = "return"
    /\ UNCHANGED << files, friends, results, i, lastError, delay, attempts,
                    nProbes, nWaits, report, ending, again, extra, net >>

\* checkLink is called for an unflagged entry and reaches its first fetch.
CheckLinkStart ==
    /\ pc = "loop"
    /\ Len(results) < Len(friends)
    /\ ~SkipCheck(CurFriend)
    /\ result' = NewResult(CurFriend)
    /\ lastError' = NullError
    /\ i' = 0
    /\ pending' = pending \cup {FetchOp(ProbeId("url", 0))}
    /\ timers' = SetTimer(timers, ProbeId("url", 0))
    /\ pc' = "url_probe"
    /\ UNCHANGED << files, friends, results, delay, attempts, nProbes, nWaits,
                    report, ending, again, extra, aborted >>

\* The timeout timer of a fetchUrl call fires: controller.abort().
Timeout ==
    /\ \E id \in timers :
        /\ timers' = timers \ {id}
        /\ aborted' = aborted \cup {id}
    /\ UNCHANGED << files, pc, friends, results, locals, report, ending, again,
                    extra, pending >>

\* The fetch of probe id has settled: fetchUrl's finally clause.
FetchEnds(id) ==
    /\ timers' = ClearTimer(timers, id)
    /\ aborted' = aborted \ {id}

\* fetchUrl(friend.url) settles with outcome o; the loop body runs up to
\* the next await (backoff timer) or out of the loop and through the
\* classification of lines 228-232.
UrlSettle(o) ==
    LET id == ProbeId("url", i) IN
    /\ nProbes' = nProbes + 1
    /\ attempts' = Append(attempts, OutcomeClass(o))
    /\ FetchEnds(id)
    /\ IF Reachable(o)
       THEN /\ result' = ClassifyUrl([result EXCEPT !.status = "ok",
                                                    !.httpStatus = o.status,
                                                    !.responseTime = o.time],
                                     lastError)
            /\ pending' = pending \ {FetchOp(id)}
            /\ pc' = "url_done"
            /\ UNCHANGED << i, lastError, delay, nWaits, ending >>
       ELSE IF ~Catches(o)
       THEN /\ Caught("check")
            /\ pending' = pending \ {FetchOp(id)}
            /\ UNCHANGED << i, lastError, delay, nWaits, result >>
       ELSE /\ lastError' = ErrorOf(o)
            /\ UNCHANGED ending
            /\ IF RetryAfter(i)
               THEN /\ \E j \in Jitters : delay' = BackoffDelay(i, j)
                    /\ nWaits' = nWaits + 1
                    /\ pending' = (pending \ {FetchOp(id)}) \cup {BackoffOp(id)}
                    /\ pc' = "url_wait"
                    /\ UNCHANGED << i, result >>
               ELSE /\ i' = i + 1
                    /\ pending' = pending \ {FetchOp(id)}
                    /\ IF LoopTest(i + 1)
                       THEN pc' = "url_retry" /\ UNCHANGED result
                       ELSE /\ result' = ClassifyUrl(result, lastError')
                            /\ pc' = "url_done"
                    /\ UNCHANGED << delay, nWaits >>
    /\ UNCHANGED << files, friends, results, report, again, extra >>

UrlProbe ==
    /\ pc = "url_probe"
    /\ \E o \in Settles(ProbeId("url", i)) : UrlSettle(o)

\* The next fetchUrl(friend.url) of the loop is called.
UrlFetch ==
    /\ pc = "url_retry"
    /\ pending' = pending \cup {FetchOp(ProbeId("url", i))}
    /\ timers' = SetTimer(timers, ProbeId("url", i))
    /\ pc' = "url_probe"
    /\ UNCHANGED << files, friends, results, locals, report, ending, again,
                    extra, aborted >>

\* The backoff timer of the URL loop fires: i++ and the loop test.
UrlWaitDone ==
    /\ pc = "url_wait"
    /\ delay' = 0
    /\ i' = i + 1
    /\ pending' = pending \ {BackoffOp(ProbeId("url", i))}
    /\ IF LoopTest(i + 1)
       THEN pc' = "url_retry" /\ UNCHANGED result
       ELSE result' = ClassifyUrl(result, lastError) /\ pc' = "url_done"
    /\ UNCHANGED << files, friends, results, lastError, attempts, nProbes, nWaits,
                    report, ending, again, extra, timers, aborted >>

\* lastError = null and the avatar loop starts (line 234).
AvatarStart ==
    /\ pc = "url_done"
    /\ lastError' = NullError
    /\ i' = 0
    /\ attempts' = << >>
    /\ pending' = pending \cup {FetchOp(ProbeId("avatar", 0))}
    /\ timers' = SetTimer(timers, ProbeId("avatar", 0))
    /\ pc' = "avatar_probe"
    /\ UNCHANGED << files, friends, results, result, delay, nProbes, nWaits,
                    report, ending, again, extra, aborted >>

\* fetchUrl(friend.avatar) settles with outcome o.
AvatarSettle(o) ==
    LET id == ProbeId("avatar", i) IN
    /\ nProbes' = nProbes + 1
    /\ attempts' = Append(attempts, OutcomeClass(o))
    /\ FetchEnds(id)
    /\ IF Reachable(o)
       THEN /\ result' = ClassifyAvatar([result EXCEPT !.avatarStatus = "ok",
                                                       !.avatarHttpStatus = o.status,
                                                       !.avatarResponseTime = o.time],
                                        lastError)
            /\ pending' = pending \ {FetchOp(id)}
            /\ pc' = "return"
            /\ UNCHANGED << i, lastError, delay, nWaits, ending >>
       ELSE IF ~Catches(o)
       THEN /\ Caught("check")
            /\ pending' = pending \ {FetchOp(id)}
            /\ UNCHANGED << i, lastError, delay, nWaits, result >>
       ELSE /\ lastError' = ErrorOf(o)
            /\ UNCHANGED ending
            /\ IF RetryAfter(i)
               THEN /\ \E j \in Jitters : delay' = BackoffDelay(i, j)
                    /\ nWaits' = nWaits + 1
                    /\ pending' = (pending \ {FetchOp(id)}) \cup {BackoffOp(id)}
                    /\ pc' = "avatar_wait"
                    /\ UNCHANGED << i, result >>
               ELSE /\ i' = i + 1
                    /\ pending' = pending \ {FetchOp(id)}
                    /\ IF LoopTest(i + 1)
                       THEN pc' = "avatar_retry" /\ UNCHANGED result
                       ELSE /\ result' = ClassifyAvatar(result, lastError')
                            /\ pc' = "return"
                    /\ UNCHANGED << delay, nWaits >>
    /\ UNCHANGED << files, friends, results, report, again, extra >>

AvatarProbe ==
    /\ pc = "avatar_probe"
    /\ \E o \in Settles(ProbeId("avatar", i)) : AvatarSettle(o)

\* The next fetchUrl(friend.avatar) of the loop is called.
AvatarFetch ==
    /\ pc = "avatar_retry"
    /\ pending' = pending \cup {FetchOp(ProbeId("avatar", i))}
    /\ timers' = SetTimer(timers, ProbeId("avatar", i))
    /\ pc' = "avatar_probe"
    /\ UNCHANGED << files, friends, results, locals, report, ending, again,
                    extra, aborted >>

\* The backoff timer of the avatar loop fires.
AvatarWaitDone ==
    /\ pc = "avatar_wait"
    /\ delay' = 0
    /\ i' = i + 1
    /\ pending' = pending \ {BackoffOp(ProbeId("avatar", i))}
    /\ IF LoopTest(i + 1)
       THEN pc' = "avatar_retry" /\ UNCHANGED result
       ELSE result' = ClassifyAvatar(result, lastError) /\ pc' = "return"
    /\ UNCHANGED << files, friends, results, lastError, attempts, nProbes, nWaits,
                    report, ending, again, extra, timers, aborted >>

\* return result; results.push(result) in main.
CheckLinkReturn ==
    /\ pc = "return"
    /\ results' = PushResult(results, result)
    /\ result' = NoResult
    /\ i' = 0
    /\ lastError' = NullError
    /\ attempts' = << >>
    /\ nProbes' = 0
    /\ nWaits' = 0
    /\ pc' = "loop"
    /\ UNCHANGED << files, friends, delay, report, ending, again, extra, net >>

(* --------------------------- main: after the loop ---------------------- *)

\* Lines 281-308 / 335-348: the filter, and the branch it selects, up to the
\* first writeFile call (or to the end of main when nothing is to write).
Filter ==
    /\ pc = "loop"
    /\ Len(results) = Len(friends)
    /\ IF Len(Failed(results)) > 0
       THEN /\ disconnectedList' = DisconnectedList(Failed(results))
            /\ issued' = issued \cup {"report"}
            /\ pc' = "write_report"
            /\ UNCHANGED << updatedFriends, changed, ending >>
       ELSE IF Len(RecoveredFriends(friends)) > 0
       THEN /\ updatedFriends' = RecoveredList(friends)
            /\ changed' = TRUE
            /\ issued' = issued \cup {"data"}
            /\ pc' = "write_recovered"
            /\ UNCHANGED << disconnectedList, ending >>
       ELSE /\ pc' = "exited"
            /\ exitCode' = NormalExitCode
            /\ UNCHANGED << issued, report, thrown >>
    /\ UNCHANGED << dataFile, reportFile, written, friends, results, locals, again, extra, net >>

\* writeFile(OUTPUT_PATH) completes; lines 311-332 up to the next writeFile
\* or process.exit(1).
WriteReport ==
    /\ pc = "write_report"
    /\ reportFile' = disconnectedList
    /\ updatedFriends' = UpdatedFriends(friends, results)
    /\ changed' = HasChanges(UpdatedFriends(friends, results), friends)
    /\ IF changed'
       THEN /\ issued' = issued \cup {"data"}
            /\ written' = written \cup {"report"}
            /\ pc' = "write_data"
            /\ UNCHANGED ending
       ELSE /\ written' = written \cup {"report"}
            /\ pc' = "exited"
            /\ exitCode' = FailureExitCode
            /\ UNCHANGED << issued, thrown >>
    /\ UNCHANGED << dataFile, friends, results, locals, disconnectedList, again, extra, net >>

WriteReportFails ==
    /\ pc = "write_report"
    /\ Caught("write_report")
    /\ UNCHANGED << files, friends, results, locals, report, again, extra, net >>

\* writeFile(DATA_PATH) of the failure branch completes; process.exit(1).
WriteData ==
    /\ pc = "write_data"
    /\ dataFile' = generateFriendsTs(updatedFriends)
    /\ written' = written \cup {"data"}
    /\ pc' = "exited"
    /\ exitCode' = FailureExitCode
    /\ UNCHANGED << reportFile, issued, friends, results, locals, report, thrown, again, extra, net >>

WriteDataFails ==
    /\ pc = "write_data"
    /\ Caught("write_data")
    /\ UNCHANGED << files, friends, results, locals, report, again, extra, net >>

\* writeFile(DATA_PATH) of the recovery branch completes; main returns.
WriteRecovered ==
    /\ pc = "write_recovered"
    /\ dataFile' = generateFriendsTs(updatedFriends)
    /\ written' = written \cup {"data"}
    /\ pc' = "exited"
    /\ exitCode' = NormalExitCode
    /\ UNCHANGED << reportFile, issued, friends, results, locals, report, thrown, again, extra, net >>

WriteRecoveredFails ==
    /\ pc = "write_recovered"
    /\ Caught("write_recovered")
    /\ UNCHANGED << files, friends, results, locals, report, again, extra, net >>

Next ==
    \/ ReadFile \/ ReadFileFails \/ ParseFails
    \/ CheckLinkSkip \/ CheckLinkStart
    \/ Timeout
    \/ UrlProbe \/ UrlWaitDone \/ UrlFetch \/ AvatarStart
    \/ AvatarProbe \/ AvatarWaitDone \/ AvatarFetch \/ CheckLinkReturn
    \/ Filter
    \/ WriteReport \/ WriteReportFails
    \/ WriteData \/ WriteDataFails
    \/ WriteRecovered \/ WriteRecoveredFails

Spec == Init /\ [][Next]_vars

\* Every fetch settles (answer, failure or abort by its timer), every timer
\* fires, every file operation settles: a step that can be taken is taken.
\* The runs start from the files made of one unflagged and one flagged entry.
LivePool ==
    { o \in TextPool : \/ (o.name = "ATao-Blog" /\ o.disconnected = "")
                       \/ (o.name = "Luxynth" /\ o.disconnected = "true") }

LiveFiles == { f \in SourceFiles : \A j \in 1..Len(f.objects) : f.objects[j] \in LivePool }

InitLive == Init /\ dataFile \in LiveFiles

SpecLive == InitLive /\ [][Next]_vars /\ WF_vars(Next)

(* ----------------------------- run after run --------------------------- *)

\* The site whose URL never answers with a success status.
Down == {"Luxynth"}

\* What a probe of a resource of the entry called n can be answered with.
Answers(n, res) ==
    IF res = "url" /\ n \in Down
    THEN { o \in ProbeOutcomes : o.kind = "response" /\ ~Reachable(o) }
    ELSE { o \in ProbeOutcomes : o.kind = "response" }

\* Entry objects of the files the first run starts from.
RunPool ==
    { o \in TextPool : \/ o.name = "ATao-Blog"
                       \/ (o.name = "Luxynth" /\ o.disconnected = "") }

RunFiles == { f \in SourceFiles : /\ f.wellFormed
                                  /\ \A j \in 1..Len(f.objects) : f.objects[j] \in RunPool }

InitRuns == Init /\ dataFile \in RunFiles

UrlAnswer ==
    /\ pc = "url_probe"
    /\ \E o \in Answers(CurFriend.name, "url") \cap Settles(ProbeId("url", i)) : UrlSettle(o)

AvatarAnswer ==
    /\ pc = "avatar_probe"
    /\ \E o \in Answers(CurFriend.name, "avatar") \cap Settles(ProbeId("avatar", i)) :
          AvatarSettle(o)

FlaggedIn(objects) == { objects[j].name : j \in { h \in 1..Len(objects) :
                                                    objects[h].disconnected = "true" } }

\* What a finished run leaves: its exit code, the entries it read, the ones
\* flagged when it started, the ones whose result fails, whether it wrote
\* the entry source, and the entries flagged in the entry source at its end.
RunRecord ==
    [code |-> exitCode,
     names |-> [j \in 1..Len(friends) |-> friends[j].name],
     before |-> { friends[j].name : j \in { h \in 1..Len(friends) : friends[h].disconnected } },
     bad |-> { results[j].name : j \in { h \in 1..Len(results) :
                   results[h].status # "ok" \/ results[h].avatarStatus # "ok" } },
     persisted |-> "data" \in written,
     flagged |-> FlaggedIn(dataFile.objects)]

\* The script is started again on the files the last run left. In these
\* runs the files are read and written without an I/O error and every
\* probe is answered before its timer fires.
Rerun ==
    /\ pc = "exited"
    /\ run < MaxRuns
    /\ history' = Append(history, RunRecord)
    /\ run' = run + 1
    /\ pc' = "read"
    /\ issued' = {}
    /\ written' = {}
    /\ friends' = << >>
    /\ results' = << >>
    /\ disconnectedList' = << >>
    /\ updatedFriends' = << >>
    /\ changed' = FALSE
    /\ exitCode' = NoNumber
    /\ thrown' = NoString
    /\ content' = NoContent
    /\ UNCHANGED << dataFile, reportFile, locals, again, parsed, net >>

NextRuns ==
    \/ ReadFile
    \/ CheckLinkSkip \/ CheckLinkStart
    \/ UrlAnswer \/ UrlWaitDone \/ UrlFetch \/ AvatarStart
    \/ AvatarAnswer \/ AvatarWaitDone \/ AvatarFetch \/ CheckLinkReturn
    \/ Filter
    \/ WriteReport \/ WriteData \/ WriteRecovered
    \/ Rerun

SpecRuns == InitRuns /\ [][NextRuns]_vars

(* ------------------------- reconciliation alone ------------------------ *)

\* Entries and results the reconciliation is applied to on its own.
EntryPool == { ParseObject(o) : o \in { t \in TextPool : ObjectMatches(t) } }

ResultPool ==
    { [NewResult(f) EXCEPT !.status = u[1], !.reason = u[2],
                           !.responseTime = 0,
                           !.avatarStatus = a, !.avatarResponseTime = 0]
        : f \in EntryPool,
          u \in { << "ok", NoString >>,
                  << "timeout", "This operation was aborted" >>,
                  << "error", "HTTP 404" >> },
          a \in {"ok", "error"} }

InitReconcile ==
    /\ dataFile = generateFriendsTs(<< >>)
    /\ reportFile = << >>
    /\ issued = {}
    /\ written = {}
    /\ pc = "reconcile"
    /\ friends \in SeqsUpTo(EntryPool, MaxEntries)
    /\ results \in SeqsUpTo(ResultPool, MaxResults)
    /\ result = NoResult
    /\ i = 0
    /\ lastError = NullError
    /\ delay = 0
    /\ attempts = << >>
    /\ nProbes = 0
    /\ nWaits = 0
    /\ disconnectedList = << >>
    /\ updatedFriends = << >>
    /\ changed = FALSE
    /\ exitCode = NoNumber
    /\ thrown = NoString
    /\ again = NoReport
    /\ content = NoContent
    /\ parsed = << >>
    /\ run = 1
    /\ history = << >>
    /\ pending = {}
    /\ timers = {}
    /\ aborted = {}

\* reconcile(entries, results)
ReconcileOnce ==
    /\ pc = "reconcile"
    /\ disconnectedList' = Reconcile(friends, results).newlyFailing
    /\ updatedFriends' = Reconcile(friends, results).updated
    /\ changed' = Reconcile(friends, results).changed
    /\ pc' = "reconciled"
    /\ UNCHANGED << files, friends, results, locals, ending, again, extra, net >>

\* reconcile(updatedEntries, results)
ReconcileAgain ==
    /\ pc = "reconciled"
    /\ again' = Reconcile(updatedFriends, results)
    /\ pc' = "reconciled_twice"
    /\ UNCHANGED << files, friends, results, locals, report, ending, extra, net >>

NextReconcile == ReconcileOnce \/ ReconcileAgain

SpecReconcile == InitReconcile /\ [][NextReconcile]_vars

(* -------------------------------- claims ------------------------------- *)

Fails(r) == r.status # "ok" \/ r.avatarStatus # "ok"

UniqueNames(s) == \A a, b \in 1..Len(s) : s[a].name = s[b].name => a = b

Probing == pc \in {"url_probe", "url_wait", "url_retry", "url_done",
                  "avatar_probe", "avatar_wait", "avatar_retry"}

\* C1: a checkLink call for an entry flagged disconnected issues no probe,
\* waits for no backoff timer, and returns status ok / avatarStatus ok,
\* both with response time 0.
C1_SkipIssuesNoProbe ==
    /\ (InCheck /\ CurFriend.disconnected) =>
          /\ pc = "return"
          /\ nProbes = 0 /\ nWaits = 0 /\ attempts = << >> /\ delay = 0
          /\ result.status = "ok" /\ result.responseTime = 0
          /\ result.avatarStatus = "ok" /\ result.avatarResponseTime = 0
    /\ \A j \in 1..Len(results) :
          friends[j].disconnected =>
             /\ results[j].status = "ok" /\ results[j].responseTime = 0
             /\ results[j].avatarStatus = "ok" /\ results[j].avatarResponseTime = 0

C1_Witness ==
    /\ pc = "return" /\ CurFriend.disconnected
    /\ result.status = "ok" /\ nProbes = 0

\* C2: each retry loop of an unflagged entry makes at most 3 probes, at
\* least 1 by the time it has ended, and a reachable probe is the last of
\* its loop: the loop has ended with status ok.
C2_RetryBound ==
    (InCheck /\ ~CurFriend.disconnected) =>
        /\ Len(attempts) <= 3
        /\ pc \in {"url_done", "return"} => Len(attempts) >= 1
        /\ \A j \in 1..Len(attempts) :
              attempts[j] = "ok" =>
                 /\ j = Len(attempts)
                 /\ \/ pc = "url_done" /\ result.status = "ok"
                    \/ pc = "return" /\ result.avatarStatus = "ok"

C2_Witness ==
    /\ pc = "url_done"
    /\ attempts = << "abort", "ok" >>
    /\ result.status = "ok"

\* C3: when every attempt of a loop failed, the status is timeout exactly
\* when the last attempt was aborted by its timeout and error otherwise,
\* whatever the earlier attempts were; the response time is 0.
C3_TerminalStatus ==
    /\ (pc = "url_done" /\ result.status # "ok") =>
          /\ Len(attempts) = 3
          /\ result.status = (IF attempts[3] = "abort" THEN "timeout" ELSE "error")
          /\ result.responseTime = 0
    /\ (pc = "return" /\ ~CurFriend.disconnected /\ result.avatarStatus # "ok") =>
          /\ Len(attempts) = 3
          /\ result.avatarStatus = (IF attempts[3] = "abort" THEN "timeout" ELSE "error")
          /\ result.avatarResponseTime = 0

C3_Witness ==
    /\ pc = "return"
    /\ attempts = << "abort", "http", "network" >>
    /\ result.avatarStatus = "error"
    /\ result.status = "timeout"

Reconciled == pc \in {"write_report", "write_data", "write_recovered", "exited"}
                  /\ thrown \notin {"read", "parse"}

FlagsDiffer(updated, fs) ==
    \E j \in 1..Len(fs) : updated[j].disconnected # fs[j].disconnected

\* C4: when the process has exited, its exit code is non-zero exactly when
\* newlyFailing is non-empty, which is exactly when some check result has a
\* status or an avatarStatus other than ok.
C4_ExitIffFailing ==
    pc = "exited" =>
        /\ (exitCode # 0) <=> (\E j \in 1..Len(results) : Fails(results[j]))
        /\ (exitCode # 0) <=> (Len(disconnectedList) > 0)

\* C5: a run aborted by a failure of reading, parsing or writing ends with
\* a non-zero exit code, and never with the failure report written and the
\* entry source not.
C5_FatalIsNonZero ==
    (pc = "exited" /\ thrown # NoString) =>
        /\ exitCode # 0
        /\ written # {"report"}

\* C6: reconciling the updated entries again with the same results gives
\* changed = false and the same updated entries.
C6_ReconcileIdempotent ==
    pc = "reconciled_twice" =>
        /\ again.changed = FALSE
        /\ again.updated = updatedFriends

C6_Witness ==
    /\ pc = "reconciled_twice"
    /\ UniqueNames(friends) /\ UniqueNames(results)
    /\ changed
    /\ Len(disconnectedList) > 0
    /\ \E j \in 1..Len(friends) : friends[j].disconnected /\ ~updatedFriends[j].disconnected
    /\ \E j \in 1..Len(friends) : ~friends[j].disconnected /\ updatedFriends[j].disconnected

\* C7: a run that starts with a flagged entry and in which no result fails
\* ends with no entry flagged in the updated list, changed true, an empty
\* newlyFailing, exit code 0 and the entry source rewritten with the updated
\* list (the write is issued, and done unless writeFile rejects); and no
\* probe or backoff wait runs for an entry while it is flagged.
C7_Recovery ==
    /\ (/\ pc = "exited"
        /\ thrown \notin {"read", "parse"}
        /\ \E j \in 1..Len(friends) : friends[j].disconnected
        /\ \A j \in 1..Len(results) : ~Fails(results[j]))
       =>
        /\ Len(updatedFriends) = Len(friends)
        /\ \A j \in 1..Len(updatedFriends) : ~updatedFriends[j].disconnected
        /\ changed
        /\ disconnectedList = << >>
        /\ exitCode = 0
        /\ "data" \in issued
        /\ thrown = NoString =>
              /\ "data" \in written
              /\ dataFile = generateFriendsTs(updatedFriends)
              /\ \A j \in 1..Len(dataFile.objects) : dataFile.objects[j].disconnected # "true"
    /\ Probing => ~CurFriend.disconnected

C7_Witness ==
    /\ pc = "exited"
    /\ thrown = NoString
    /\ Len(friends) = 2
    /\ friends[1].disconnected /\ ~friends[2].disconnected
    /\ results[2].httpStatus = 200
    /\ "data" \in written
    /\ exitCode = 0

\* The records newlyFailing must hold: one per failing result, in the order
\* of the entries.
RECURSIVE ExpectedFailing(_, _)
ExpectedFailing(fs, rs) ==
    IF fs = << >> \/ rs = << >> THEN << >>
    ELSE (IF Fails(Head(rs))
             THEN << [name |-> Head(fs).name, url |-> Head(fs).url] >>
             ELSE << >>)
         \o ExpectedFailing(Tail(fs), Tail(rs))

\* C8: with unique entry names, newlyFailing has exactly one record (name,
\* url, a non-empty reason) per entry whose result fails, in entry order;
\* the updated list flags exactly the entries whose result fails; an entry
\* flagged at input has no record in newlyFailing.
C8_NewlyFailing ==
    (Reconciled /\ UniqueNames(friends)) =>
        /\ Len(disconnectedList) = Len(ExpectedFailing(friends, results))
        /\ \A j \in 1..Len(disconnectedList) :
              /\ disconnectedList[j].name = ExpectedFailing(friends, results)[j].name
              /\ disconnectedList[j].url = ExpectedFailing(friends, results)[j].url
              /\ Len(disconnectedList[j].reason) >= 1
        /\ updatedFriends # << >> =>
              \A j \in 1..Len(friends) :
                  updatedFriends[j].disconnected <=> Fails(results[j])
        /\ \A j \in 1..Len(friends) :
              friends[j].disconnected =>
                 \A h \in 1..Len(disconnectedList) : disconnectedList[h].name # friends[j].name

C8_Witness ==
    /\ pc = "exited"
    /\ UniqueNames(friends)
    /\ Len(friends) = 2
    /\ Len(disconnectedList) = 1
    /\ Len(updatedFriends) = 2
    /\ results[1].status = "ok" /\ results[1].avatarStatus = "ok"
    /\ results[2].status = "ok" /\ results[2].avatarStatus = "error"
    /\ updatedFriends[2].disconnected /\ ~updatedFriends[1].disconnected

\* C9: the updated list has the entries of the input list, in the same
\* number and order, equal in every field but disconnected.
C9_FrameOfUpdate ==
    updatedFriends # << >> =>
        /\ Len(updatedFriends) = Len(friends)
        /\ \A j \in 1..Len(friends) :
              /\ updatedFriends[j].name = friends[j].name
              /\ updatedFriends[j].description = friends[j].description
              /\ updatedFriends[j].url = friends[j].url
              /\ updatedFriends[j].avatar = friends[j].avatar
              /\ updatedFriends[j].addDate = friends[j].addDate
              /\ updatedFriends[j].recommended = friends[j].recommended
              /\ DOMAIN updatedFriends[j] = DOMAIN friends[j]

C9_Witness ==
    /\ pc = "exited"
    /\ Len(updatedFriends) = 2
    /\ updatedFriends[1].disconnected /\ ~friends[1].disconnected
    /\ friends[1].recommended /\ friends[2].addDate # NoString

\* C10: changed is true exactly when some flag differs between the input
\* and the updated list; main calls writeFile on the entry source exactly
\* when changed is true and on the failure report exactly when newlyFailing
\* is non-empty, and a run that ends without an exception has completed the
\* writes it called; a run with no failing result and no flagged entry
\* writes nothing and exits with 0.
C10_Persistence ==
    /\ changed <=> (updatedFriends # << >> /\ FlagsDiffer(updatedFriends, friends))
    /\ ("data" \in issued) <=> changed
    /\ ("report" \in issued) <=> (Len(disconnectedList) > 0)
    /\ (pc = "exited" /\ thrown = NoString) => written = issued
    /\ (/\ pc = "exited"
        /\ thrown \notin {"read", "parse"}
        /\ \A j \in 1..Len(results) : ~Fails(results[j])
        /\ \A j \in 1..Len(friends) : ~friends[j].disconnected)
       => (issued = {} /\ written = {} /\ exitCode = 0)

C10_Witness ==
    /\ pc = "exited"
    /\ exitCode = 1
    /\ Len(friends) = 2
    /\ written = {"report"}
    /\ thrown = NoString
    /\ ~changed
    /\ Fails(results[2])

C10_WitnessQuiet ==
    /\ pc = "exited"
    /\ Len(friends) = 2
    /\ issued = {}
    /\ exitCode = 0

(* ------------------------- encode and parse back ----------------------- *)

\* Entries with non-empty, quote-free required fields and optional fields
\* that are set or absent.
RoundTripPool ==
    { FriendLink("ATao-Blog", d, "https://blog.atao.cyou/",
                 "https://cdn.atao.cyou/Web/Avatar.png", date, rec, disc)
        : d \in {"desc-A"} \cup WithArrayEnd,
          date \in {"", "2026-02-21"} \cup WithQuote,
          rec \in BOOLEAN, disc \in BOOLEAN }

\* Every variable but pc, friends and dataFile before anything has run.
Untouched ==
    /\ reportFile = << >>
    /\ issued = {}
    /\ written = {}
    /\ results = << >>
    /\ result = NoResult
    /\ i = 0
    /\ lastError = NullError
    /\ delay = 0
    /\ attempts = << >>
    /\ nProbes = 0
    /\ nWaits = 0
    /\ disconnectedList = << >>
    /\ updatedFriends = << >>
    /\ changed = FALSE
    /\ exitCode = NoNumber
    /\ thrown = NoString
    /\ again = NoReport
    /\ content = NoContent
    /\ parsed = << >>
    /\ run = 1
    /\ history = << >>
    /\ pending = {}
    /\ timers = {}
    /\ aborted = {}

InitRoundTrip ==
    /\ friends \in SeqsUpTo(RoundTripPool, MaxEntries)
    /\ dataFile = NoContent
    /\ pc = "encode"
    /\ Untouched

\* generateFriendsTs(friends)
Encode ==
    /\ pc = "encode"
    /\ dataFile' = generateFriendsTs(friends)
    /\ pc' = "parse"
    /\ UNCHANGED << reportFile, issued, written, friends, results, locals, report,
                    ending, again, extra, net >>

\* parseFriendsTs of the generated text
ParseBack ==
    /\ pc = "parse"
    /\ dataFile.wellFormed
    /\ parsed' = parseFriendsTs(dataFile)
    /\ pc' = "parsed"
    /\ UNCHANGED << files, friends, results, locals, report, ending, again,
                    content, run, history, net >>

NextRoundTrip == Encode \/ ParseBack

SpecRoundTrip == InitRoundTrip /\ [][NextRoundTrip]_vars

\* What the generated text holds for the entries: the optional fields in
\* the order addDate, recommended, disconnected, each only when set, the
\* booleans only as `true`.
EncodedAsDocumented ==
    pc \in {"parse", "parsed"} =>
        /\ Len(dataFile.objects) = Len(friends)
        /\ \A j \in 1..Len(friends) :
              LET o == dataFile.objects[j]
                  f == friends[j]
              IN /\ o.name = f.name /\ o.description = f.description
                 /\ o.url = f.url /\ o.avatar = f.avatar
                 /\ o.optional =
                       (IF f.addDate # "" THEN << "addDate" >> ELSE << >>)
                       \o (IF f.recommended THEN << "recommended" >> ELSE << >>)
                       \o (IF f.disconnected THEN << "disconnected" >> ELSE << >>)
                 /\ o.addDate = f.addDate
                 /\ o.recommended = (IF f.recommended THEN "true" ELSE "")
                 /\ o.disconnected = (IF f.disconnected THEN "true" ELSE "")

PlainText(f) ==
    \A str \in {f.name, f.description, f.url, f.avatar, f.addDate} :
        ~ContainsQuote(str) /\ ~ContainsArrayEnd(str)

\* C11 as stated: for entries whose required fields are non-empty and free
\* of double quotes, parsing the generated text gives the entries back, and
\* the text has the optional fields in the documented order and form.
C11_RoundTripAsStated ==
    /\ pc = "parsed" => parsed = friends
    /\ EncodedAsDocumented

\* C11, amended: the same for entries in which no string field, addDate
\* included, holds a double quote or the characters `];`.
C11_RoundTrip ==
    /\ (pc = "parsed" /\ \A j \in 1..Len(friends) : PlainText(friends[j]))
          => parsed = friends
    /\ EncodedAsDocumented

C11_Witness ==
    /\ pc = "parsed"
    /\ Len(friends) = 2
    /\ PlainText(friends[1]) /\ PlainText(friends[2])
    /\ friends[1].recommended /\ friends[1].disconnected /\ friends[1].addDate # ""
    /\ ~friends[2].recommended /\ ~friends[2].disconnected /\ friends[2].addDate = ""
    /\ parsed = friends

(* ----------------------------- more claims ----------------------------- *)

Waiting == pc \in {"url_wait", "avatar_wait"}

Backoffs == { p \in pending : p.op = "backoff" }
Fetches == { p \in pending : p.op = "fetch" }

\* C12: a backoff wait follows only a failed attempt with index 0 or 1, and
\* lasts 1000..1099 ms after the first failure and 2000..2099 ms after the
\* second; no wait follows the third failure or a successful attempt, so a
\* finished loop has waited once less than it has probed.
C12_Backoff ==
    /\ Waiting =>
          /\ i \in {0, 1}
          /\ Len(attempts) = i + 1
          /\ attempts[Len(attempts)] # "ok"
          /\ i = 0 => (delay >= 1000 /\ delay < 1100)
          /\ i = 1 => (delay >= 2000 /\ delay < 2100)
          /\ Cardinality(Backoffs) = 1
    /\ ~Waiting => (delay = 0 /\ Backoffs = {})
    /\ pc = "url_done" => nWaits = nProbes - 1
    /\ (pc = "return" /\ ~CurFriend.disconnected) => nWaits = nProbes - 2

C12_Witness ==
    /\ pc = "avatar_wait"
    /\ i = 1
    /\ delay = 2099
    /\ attempts = << "abort", "http" >>

Ids(ops) == { p.id : p \in ops }

\* C13: at most one probe or backoff wait is outstanding; it belongs to the
\* entry after the last one whose check has returned; an avatar probe or
\* wait is outstanding only once the URL has its terminal status; the
\* results are in the order of the entries.
C13_Sequential ==
    /\ Cardinality(pending) <= 1
    /\ pending # {} => InCheck
    /\ \A p \in pending :
          /\ p.id.entry = Len(results) + 1
          /\ p.id.entry <= Len(friends)
          /\ p.id.resource = "avatar" => result.status # NoString
          /\ p.id.resource = "url" => result.avatarStatus = NoString
    /\ Len(results) <= Len(friends)
    /\ \A j \in 1..Len(results) :
          /\ results[j].name = friends[j].name
          /\ results[j].url = friends[j].url
          /\ results[j].avatar = friends[j].avatar

C13_Witness ==
    /\ pc = "avatar_probe"
    /\ Len(results) = 1
    /\ results[1].name # friends[2].name
    /\ result.status = "timeout"
    /\ pending = {FetchOp([entry |-> 2, resource |-> "avatar", attempt |-> 1])}

AfterLoop == pc \in {"write_report", "write_data", "write_recovered", "exited"}
                /\ thrown \notin {"read", "parse"}

\* C14: no probe outcome reaches the handler of main: when the loop is over
\* every entry has its one result; the check of an unflagged entry returns
\* only after its avatar was probed, whatever the URL status; the entry
\* after a fully failed one is checked like any other.
C14_NoProbeAborts ==
    /\ thrown # "check"
    /\ InCheck => exitCode = NoNumber
    /\ AfterLoop =>
          /\ Len(results) = Len(friends)
          /\ \A j \in 1..Len(friends) :
                /\ results[j].name = friends[j].name
                /\ results[j].status # NoString
                /\ results[j].avatarStatus # NoString
    /\ (pc = "return" /\ ~CurFriend.disconnected) =>
          /\ Len(attempts) >= 1
          /\ result.status # NoString
          /\ result.avatarStatus # NoString

C14_Witness ==
    /\ pc = "return"
    /\ Len(results) = 1
    /\ results[1].status = "timeout" /\ results[1].avatarStatus = "error"
    /\ result.status = "error" /\ result.avatarStatus = "ok"
    /\ attempts = << "network", "ok" >>

FailingResults == SelectSeq(results, Fails)

Parts(reason, side) == { h \in 1..Len(reason) : reason[h].side = side }

\* C15: the reason of a newlyFailing record has a URL part, with the URL
\* status and its error text, exactly when the URL status is not ok, and an
\* Avatar part with the avatar status exactly when the avatar status is not
\* ok; the URL part comes first when both are there.
C15_Reason ==
    disconnectedList # << >> =>
        /\ Len(disconnectedList) = Len(FailingResults)
        /\ \A j \in 1..Len(disconnectedList) :
              LET reason == disconnectedList[j].reason
                  r == FailingResults[j]
              IN  /\ Cardinality(Parts(reason, "URL")) = (IF r.status # "ok" THEN 1 ELSE 0)
                  /\ Cardinality(Parts(reason, "Avatar")) =
                         (IF r.avatarStatus # "ok" THEN 1 ELSE 0)
                  /\ Len(reason) = Cardinality(Parts(reason, "URL"))
                                     + Cardinality(Parts(reason, "Avatar"))
                  /\ \A h \in Parts(reason, "URL") :
                        /\ h = 1
                        /\ reason[h].status = r.status
                        /\ reason[h].detail = r.reason
                  /\ \A h \in Parts(reason, "Avatar") :
                        reason[h].status = r.avatarStatus

C15_Witness ==
    /\ pc = "exited"
    /\ Len(disconnectedList) = 2
    /\ results[1].status = "ok"
    /\ disconnectedList[1].reason =
          << [side |-> "Avatar", status |-> "error", detail |-> NoString] >>
    /\ results[2].avatarStatus = "ok"
    /\ Len(disconnectedList[2].reason) = 1
    /\ disconnectedList[2].reason[1].side = "URL"
    /\ disconnectedList[2].reason[1].status = "timeout"

\* Objects of the text that was read which have a comma after the last field.
Dropped == { j \in 1..Len(content.objects) : content.objects[j].trailingComma }

Names(s) == { s[j].name : j \in 1..Len(s) }

\* C18: an object with a comma after its last field raises no error and is
\* not in the parsed list, so it is never checked; the entry source a run
\* rewrites has the parsed entries only, fewer than the source that was
\* read whenever such an object was in it.
C18_DroppedEntry ==
    /\ thrown = "parse" => ~content.wellFormed
    /\ (content.wellFormed /\ pc # "read") =>
          /\ Len(friends) = Len(content.objects) - Cardinality(Dropped)
          /\ \A j \in Dropped :
                /\ content.objects[j].name \notin Names(friends)
                /\ content.objects[j].name \notin Names(results)
                /\ InCheck => result.name # content.objects[j].name
    /\ "data" \in written =>
          /\ Len(dataFile.objects) = Len(friends)
          /\ \A j \in Dropped : content.objects[j].name \notin Names(dataFile.objects)
          /\ Dropped # {} => Len(dataFile.objects) < Len(content.objects)

C18_Witness ==
    /\ pc = "exited"
    /\ "data" \in written
    /\ Len(content.objects) = 2
    /\ content.objects[1].trailingComma
    /\ Len(dataFile.objects) = 1
    /\ dataFile.objects[1].name = content.objects[2].name

\* C19: a timeout timer is pending, and an abort has fired, only for the
\* fetch that is in flight; the timer and the abort of a probe are gone
\* when the probe has ended; at most one timer is pending; every fetch in
\* flight has its own timer pending or its own abort fired.
C19_OwnTimer ==
    /\ timers \subseteq Ids(Fetches)
    /\ aborted \subseteq Ids(Fetches)
    /\ timers \cap aborted = {}
    /\ Cardinality(timers) <= 1
    /\ Ids(Fetches) \subseteq timers \cup aborted
    /\ pc \notin {"url_probe", "avatar_probe"} => (timers = {} /\ aborted = {})

C19_Witness ==
    /\ pc = "avatar_probe"
    /\ i = 2
    /\ attempts = << "abort", "http" >>
    /\ timers = {}
    /\ aborted = {[entry |-> 2, resource |-> "avatar", attempt |-> 2]}

UrlLoop == pc \in {"url_probe", "url_wait", "url_retry"}

\* C16: a checkLink call issues at most 6 probes and waits at most 4 times,
\* at most 3 probes and 2 waits in the URL loop; when probes settle and
\* timers fire, every checkLink call returns and the run ends.
C16_Terminates ==
    /\ [](/\ nProbes <= 2 * MAX_RETRIES
          /\ nWaits <= 2 * (MAX_RETRIES - 1)
          /\ Len(attempts) <= MAX_RETRIES
          /\ (UrlLoop \/ pc = "url_done") =>
                (nProbes <= MAX_RETRIES /\ nWaits <= MAX_RETRIES - 1))
    /\ (InCheck ~> (pc = "loop"))
    /\ <>(pc = "exited")

C16_Witness ==
    /\ pc = "return"
    /\ nProbes = 6
    /\ nWaits = 4
    /\ Len(results) = 1

Finished == IF pc = "exited" THEN Append(history, RunRecord) ELSE history

UniqueIn(names) == \A a, b \in 1..Len(names) : names[a] = names[b] => a = b

\* What a run that wrote the entry source did to the flags: an entry flagged
\* at its start is unflagged at its end; an entry of the site that is down,
\* unflagged at the start, is flagged at the end; the exit code is non-zero
\* exactly when some result fails.
Flips(h) ==
    /\ \A n \in h.before : n \notin h.flagged
    /\ \A n \in Down : (n \in h.flagged) <=>
                         (\E j \in 1..Len(h.names) : h.names[j] = n) /\ n \notin h.before
    /\ (h.code # NormalExitCode) <=> (h.bad # {})

\* Run k reads what run k-1 left.
Chained(hs) == \A k \in 2..Len(hs) : hs[k].before = hs[k - 1].flagged

\* A flagged entry is skipped: its result is the synthetic one, not a probe's.
SkippedUnprobed ==
    \A j \in 1..Len(results) :
        friends[j].disconnected =>
            /\ results[j].status = "ok" /\ results[j].avatarStatus = "ok"
            /\ results[j].httpStatus = NoNumber /\ results[j].avatarHttpStatus = NoNumber
            /\ results[j].responseTime = 0 /\ results[j].avatarResponseTime = 0

\* The claim as it is stated, for every entry list.
C17_OscillationAsStated ==
    /\ SkippedUnprobed
    /\ Chained(Finished)
    /\ \A k \in 1..Len(Finished) :
          /\ Finished[k].persisted => Flips(Finished[k])
          /\ (Finished[k].before # {} /\ Finished[k].code # CaughtExitCode)
                => Finished[k].persisted

\* C17: with unique entry names, a run never probes an entry flagged at its
\* start and persists it unflagged, whether or not other results fail; the
\* entry whose URL always fails is flagged by the run that probes it and
\* unflagged by the next, and the exit code is non-zero in exactly the runs
\* with a failing result, so it alternates with the flag when that entry is
\* the only bad one.
C17_Oscillation ==
    /\ SkippedUnprobed
    /\ \A k \in 1..Len(Finished) :
          UniqueIn(Finished[k].names) =>
              /\ k > 1 => Finished[k].before = Finished[k - 1].flagged
              /\ Finished[k].persisted => Flips(Finished[k])
              /\ (Finished[k].before # {} /\ thrown = NoString /\ k = Len(Finished)
                     /\ pc = "exited")
                    => Finished[k].persisted

C17_Witness ==
    /\ pc = "exited"
    /\ run = 3
    /\ Len(friends) = 2
    /\ friends[1].name = "ATao-Blog"
    /\ history[1].flagged = {"Luxynth"} /\ history[1].code = FailureExitCode
    /\ history[2].flagged = {} /\ history[2].code = NormalExitCode
    /\ history[2].before = {"Luxynth"} /\ history[2].persisted
    /\ exitCode = FailureExitCode
    /\ FlaggedIn(dataFile.objects) = {"Luxynth"}

====
